---- MODULE Spec2Model ----
(***************************************************************************)
(* FF3 / FF3-1 format-preserving encryption (ff3.py).                      *)
(*                                                                         *)
(* Representation                                                          *)
(*   - a Python str is a sequence of characters, a character is its code   *)
(*     point (an integer);                                                 *)
(*   - a hex text string (key, tweak) is a sequence of hex digit values    *)
(*     0..15, two per byte;                                                *)
(*   - bytes / bytearray are sequences of 0..255;                          *)
(*   - a Python int (arbitrary precision) is a normalised little-endian    *)
(*     sequence of base-256 limbs (zero is << >>); a possibly negative     *)
(*     int is a record [neg, mag];                                         *)
(*   - a raised exception is a record [ok |-> FALSE, err |-> reason];       *)
(*   - Python evaluates a statement before the statements after it: a      *)
(*     loop is a recursive operator over a record st of the loop's          *)
(*     variables, a sequence of assignments is a chain of Let.              *)
(***************************************************************************)
EXTENDS Integers, Sequences, FiniteSets, TLC

\* ------------------------------------------------------------------------
\* Module constants (ff3.py 29-36)
\* ------------------------------------------------------------------------
DOMAIN_MIN == 1000000

MAX_RADIX == 65536

NUM_ROUNDS == 8

BLOCK_SIZE == 16

TWEAK_LEN == 8

TWEAK_LEN_NEW == 7

HALF_TWEAK_LEN == TWEAK_LEN \div 2

\* string.digits + string.ascii_lowercase + string.ascii_uppercase
DEFAULT_ALPHABET ==
    [i \in 1..62 |-> IF i <= 10 THEN 47 + i
                     ELSE IF i <= 36 THEN 86 + i
                     ELSE 28 + i]

\* ------------------------------------------------------------------------
\* Sequential evaluation: the value of x, then F of that value
\* ------------------------------------------------------------------------
Let(x, F(_)) == CHOOSE r \in {F(v) : v \in {x}} : TRUE

\* ------------------------------------------------------------------------
\* Python int arithmetic on base-256 limb sequences
\* ------------------------------------------------------------------------
Limb == 256

Max(x, y) == IF x >= y THEN x ELSE y

LimbAt(a, i) == IF i <= Len(a) THEN a[i] ELSE 0

\* index of the highest non-zero limb of a, 0 when there is none
TopIndex(a) ==
    LET nz == {i \in 1..Len(a) : a[i] # 0}
    IN  IF nz = {} THEN 0 ELSE CHOOSE i \in nz : \A j \in nz : j <= i

\* a without its high zero limbs
BigNorm(a) == SubSeq(a, 1, TopIndex(a))

\* a machine int n >= 0 (at most four limbs)
BigFromInt(n) ==
    BigNorm(<<n % Limb, (n \div Limb) % Limb, (n \div (Limb * Limb)) % Limb,
              n \div (Limb * Limb * Limb)>>)

\* st = [i, carry, out]
RECURSIVE AddLoop(_, _, _)
AddLoop(a, b, st) ==
    IF st.i > Len(a) /\ st.i > Len(b)
    THEN IF st.carry = 0 THEN st.out ELSE Append(st.out, st.carry)
    ELSE AddLoop(a, b,
            [i     |-> st.i + 1,
             carry |-> (LimbAt(a, st.i) + LimbAt(b, st.i) + st.carry) \div Limb,
             out   |-> Append(st.out,
                              (LimbAt(a, st.i) + LimbAt(b, st.i) + st.carry) % Limb)])

\* a + b
BigAdd(a, b) == AddLoop(a, b, [i |-> 1, carry |-> 0, out |-> << >>])

\* a < b (both normalised): decided by the highest limb in which they differ
BigLess(a, b) ==
    IF Len(a) # Len(b) THEN Len(a) < Len(b)
    ELSE LET df == {i \in 1..Len(a) : a[i] # b[i]}
         IN  IF df = {} THEN FALSE
             ELSE LET t == CHOOSE i \in df : \A j \in df : j <= i
                  IN  a[t] < b[t]

\* st = [i, borrow, out]
RECURSIVE SubLoop(_, _, _)
SubLoop(a, b, st) ==
    IF st.i > Len(a) THEN st.out
    ELSE LET d == a[st.i] - LimbAt(b, st.i) - st.borrow
         IN  SubLoop(a, b,
                [i      |-> st.i + 1,
                 borrow |-> IF d < 0 THEN 1 ELSE 0,
                 out    |-> Append(st.out, IF d < 0 THEN d + Limb ELSE d)])

\* a - b for a >= b
BigSub(a, b) == BigNorm(SubLoop(a, b, [i |-> 1, borrow |-> 0, out |-> << >>]))

\* st = [i, carry, out]
RECURSIVE MulSmallLoop(_, _, _)
MulSmallLoop(a, k, st) ==
    IF st.i > Len(a) THEN st.out \o BigFromInt(st.carry)
    ELSE MulSmallLoop(a, k,
            [i     |-> st.i + 1,
             carry |-> (a[st.i] * k + st.carry) \div Limb,
             out   |-> Append(st.out, (a[st.i] * k + st.carry) % Limb)])

\* a * k for a machine-size k (0 <= k <= 65536)
BigMulSmall(a, k) ==
    IF k = 0 THEN << >> ELSE MulSmallLoop(a, k, [i |-> 1, carry |-> 0, out |-> << >>])

\* a shifted left by n limbs (a * 256^n)
BigShift(a, n) == IF a = << >> THEN << >> ELSE [j \in 1..n |-> 0] \o a

\* a * b, one limb of b at a time; st = [i, acc]
RECURSIVE MulLoop(_, _, _)
MulLoop(a, b, st) ==
    IF st.i > Len(b) THEN st.acc
    ELSE MulLoop(a, b,
            [i   |-> st.i + 1,
             acc |-> Let(BigShift(BigMulSmall(a, b[st.i]), st.i - 1),
                         LAMBDA t : BigAdd(st.acc, t))])

BigMul(a, b) == MulLoop(a, b, [i |-> 1, acc |-> << >>])

\* base ** power (binary exponentiation)
RECURSIVE BigPow(_, _)
BigPow(base, power) ==
    IF power = 0 THEN <<1>>
    ELSE Let(BigPow(base, power \div 2), LAMBDA h :
         Let(BigMul(h, h), LAMBDA sq :
             IF power % 2 = 1 THEN BigMulSmall(sq, base) ELSE sq))

\* st = [i, rem, q]: long division from the highest limb down
RECURSIVE DivSmallLoop(_, _, _)
DivSmallLoop(a, k, st) ==
    IF st.i = 0 THEN [q |-> BigNorm(st.q), r |-> st.rem]
    ELSE DivSmallLoop(a, k,
            [i   |-> st.i - 1,
             rem |-> (st.rem * Limb + a[st.i]) % k,
             q   |-> <<(st.rem * Limb + a[st.i]) \div k>> \o st.q])

\* divmod(a, k) for a machine-size k (1 <= k <= 65536); r is a machine int
BigDivModSmall(a, k) == DivSmallLoop(a, k, [i |-> Len(a), rem |-> 0, q |-> << >>])

\* value of the limbs a[lo..Len(a)] as a machine int (at most three limbs)
LimbsVal(a, lo) ==
    LimbAt(a, lo) + Limb * LimbAt(a, lo + 1) + Limb * Limb * LimbAt(a, lo + 2)

\* largest q with q * m <= cur, searched downwards from an upper estimate
RECURSIVE QDown(_, _, _)
QDown(cur, m, q) ==
    IF BigLess(cur, BigMulSmall(m, q)) THEN QDown(cur, m, q - 1) ELSE q

QDigit(cur, m) ==
    LET lo   == Max(1, Len(m) - 1)
        qhat == LimbsVal(cur, lo) \div LimbsVal(m, lo)
    IN  QDown(cur, m, IF qhat > Limb - 1 THEN Limb - 1 ELSE qhat)

\* st = [i, rem]: long division by m from the highest limb down
RECURSIVE ModLoop(_, _, _)
ModLoop(a, m, st) ==
    IF st.i = 0 THEN st.rem
    ELSE ModLoop(a, m,
            [i   |-> st.i - 1,
             rem |-> Let(BigNorm(<<a[st.i]>> \o st.rem), LAMBDA cur :
                     Let(BigMulSmall(m, QDigit(cur, m)), LAMBDA qm :
                         BigSub(cur, qm)))])

\* a mod m for a >= 0, m > 0 (a modulus of at most two limbs is a machine int)
BigMod(a, m) ==
    IF Len(m) <= 2 THEN BigFromInt(BigDivModSmall(a, LimbsVal(m, 1)).r)
    ELSE ModLoop(a, m, [i |-> Len(a), rem |-> << >>])

\* a possibly negative int
Signed(neg, mag) == [neg |-> neg /\ mag # << >>, mag |-> mag]

\* a - b gone wrong: the absolute difference
BigSubAbs(a, b) ==
    IF BigLess(a, b) THEN Signed(FALSE, BigSub(b, a)) ELSE Signed(FALSE, BigSub(a, b))

\* a - b, which may be negative
BigSubSigned(a, b) ==
    IF BigLess(a, b) THEN Signed(TRUE, BigSub(b, a)) ELSE Signed(FALSE, BigSub(a, b))

\* c % m gone wrong: the remainder of the magnitude, whatever the sign of c
PyModMagnitude(c, m) == BigMod(c.mag, m)

\* Python's c % m: the result has the sign of m (m > 0), so it lies in [0, m)
PyMod(c, m) ==
    Let(BigMod(c.mag, m), LAMBDA r :
        IF c.neg /\ r # << >> THEN BigSub(m, r) ELSE r)

\* int.from_bytes(S, byteorder='big')
BigFromBytes(S) == BigNorm([i \in 1..Len(S) |-> S[Len(S) + 1 - i]])

\* a small int as a machine int
BigToInt(a) == LimbsVal(a, 1)

\* ------------------------------------------------------------------------
\* Python values: results, exceptions, optional and typed arguments
\* ------------------------------------------------------------------------
Ok(v) == [ok |-> TRUE, val |-> v]

Err(e) == [ok |-> FALSE, err |-> e]

NoneVal == [type |-> "NoneType"]

IntVal(n) == [type |-> "int", v |-> n]

StrVal(s) == [type |-> "str", v |-> s]

\* a value that is neither None, an int nor a str
OtherVal == [type |-> "float"]

\* n.to_bytes(length, "big"): OverflowError when n does not fit
to_bytes(n, length) ==
    IF Len(n) > length THEN Err("int-too-big-to-convert")
    ELSE Ok([i \in 1..length |-> LimbAt(n, length + 1 - i)])

\* bytes.fromhex(h) for well-formed hex text h (an even number of hex digits)
fromhex(h) == [i \in 1..(Len(h) \div 2) |-> 16 * h[2 * i - 1] + h[2 * i]]

\* txt[::-1]
\* reverse_string gone wrong: the string as it is
reverse_string_same(txt) == txt

reverse_string(txt) == [i \in 1..Len(txt) |-> txt[Len(txt) + 1 - i]] \o << >>

\* str(x) of a value x that already is a str: the same string
PyStr(x) == x

\* alphabet.index(char): zero-based position of the first occurrence, -1 for
\* the ValueError raised when there is none
\* index gone wrong: position 0 for a character that is absent
index_or_zero(alphabet, char) ==
    LET hits == {i \in 1..Len(alphabet) : alphabet[i] = char}
    IN  IF hits = {} THEN 0
        ELSE (CHOOSE i \in hits : \A j \in hits : i <= j) - 1

index(alphabet, char) ==
    LET hits == {i \in 1..Len(alphabet) : alphabet[i] = char}
    IN  IF hits = {} THEN -1
        ELSE (CHOOSE i \in hits : \A j \in hits : i <= j) - 1

\* ------------------------------------------------------------------------
\* validate_radix_and_alphabet (ff3.py 403-463)
\* ------------------------------------------------------------------------
validate_radix_and_alphabet(radix, alphabet) ==
    IF radix.type \notin {"NoneType", "int"} THEN Err("radix-not-int")
    ELSE IF radix.type = "int" /\ radix.v < 2 THEN Err("radix-too-small")
    ELSE IF alphabet.type \notin {"NoneType", "str"} THEN Err("alphabet-not-str")
    ELSE IF alphabet.type = "str" /\ Len(alphabet.v) < 2 THEN Err("alphabet-too-short")
    ELSE IF radix.type = "int" /\ alphabet.type = "str" /\ Len(alphabet.v) # radix.v
    THEN Err("alphabet-radix-mismatch")
    ELSE LET r1 == IF alphabet.type = "NoneType" /\ radix.type = "NoneType"
                   THEN IntVal(10) ELSE radix
         IN  IF alphabet.type = "NoneType" /\ r1.v > Len(DEFAULT_ALPHABET)
             THEN Err("radix-exceeds-default-alphabet")
             ELSE LET a1 == IF alphabet.type = "NoneType"
                            THEN SubSeq(DEFAULT_ALPHABET, 1, r1.v)
                            ELSE alphabet.v
                      r2 == IF r1.type = "NoneType" THEN Len(a1) ELSE r1.v
                  IN  IF Len(a1) # Len(PyStr(a1)) THEN Err("alphabet-duplicates")
                      ELSE IF r2 > MAX_RADIX THEN Err("radix-too-large")
                      ELSE Ok([radix |-> r2, alphabet |-> a1])

\* ------------------------------------------------------------------------
\* minlen_and_maxlen (ff3.py 465-477)
\* The double math.log(DOMAIN_MIN, radix) matters only through math.ceil,
\* so a double d is kept as [int, pos]: d = int when pos = 0, and
\* int < d < int + 1 when pos = 1.
\* ------------------------------------------------------------------------
\* st = [k, p]: p = base ** k, the largest power of base that is <= x
RECURSIVE IntLogLoop(_, _, _)
IntLogLoop(x, base, st) ==
    IF st.p > x \div base THEN st
    ELSE IntLogLoop(x, base, [k |-> st.k + 1, p |-> st.p * base])

\* the bases for which math.log(1000000, base) is an integer in the reals and
\* the double falls below it: math.log(1000000, 10) = 5.999999999999999,
\* math.log(1000000, 100) = 2.9999999999999996 (math.log(1000000, 1000) = 2.0)
LogRoundsBelow == {10, 100}

\* math.log(x, base) = log(x) / log(base) in doubles, for ints 2 <= base, x.
\* Unless x is a power of base the real quotient is farther from every
\* integer (over 1e-13, x and base being below 2^20) than the double is from
\* the real quotient (under 1e-14), so the double lies between the same
\* integers as the real quotient.
math_log(x, base) ==
    LET st == IntLogLoop(x, base, [k |-> 0, p |-> 1])
    IN  IF st.p # x THEN [int |-> st.k, pos |-> 1]
        ELSE IF base \in LogRoundsBelow THEN [int |-> st.k - 1, pos |-> 1]
        ELSE [int |-> st.k, pos |-> 0]

\* math_ceil gone wrong: one above the integer part whatever the fraction
math_ceil_up(d) == d.int + 1

math_ceil(d) == d.int + d.pos

\* st = [x, k]: k divisions by r so far, x the quotient left
RECURSIVE FloorLogLoop(_, _)
FloorLogLoop(r, st) ==
    IF BigLess(st.x, BigFromInt(r)) THEN st.k
    ELSE FloorLogLoop(r, [x |-> BigDivModSmall(st.x, r).q, k |-> st.k + 1])

\* floor(log_r(x)) = 1 + floor(log_r(floor(x / r)))  (0 when x < r)
FloorLog(x, r) == FloorLogLoop(r, [x |-> x, k |-> 0])

\* math.floor(96 / math.log2(radix)): the double 96 / math.log2(radix) has the
\* floor of the real quotient 96 / log2(radix) = log_radix(2^96) for every
\* radix of [2, 65536] (math.log2 is exact on the powers of two)
\* FloorOf96ByLog2 gone wrong: the quotient rounded to the nearest integer
\* above
CeilOf96ByLog2(radix) == FloorLog(BigPow(2, 96), radix) + 1

FloorOf96ByLog2(radix) == FloorLog(BigPow(2, 96), radix)

minlen_and_maxlen(radix) ==
    [minLen |-> math_ceil(math_log(DOMAIN_MIN, radix)),
     maxLen |-> 2 * FloorOf96ByLog2(radix)]

\* ------------------------------------------------------------------------
\* Numeral codec: encode_int_r (ff3.py 357-382), decode_int (ff3.py 384-401)
\* ------------------------------------------------------------------------
\* the while loop of encode_int_r; st = [n, x]
RECURSIVE EncodeLoop(_, _, _)
EncodeLoop(base, alphabet, st) ==
    IF ~BigLess(st.n, BigFromInt(base))
    THEN LET d == BigDivModSmall(st.n, base)
         IN  EncodeLoop(base, alphabet,
                        [n |-> d.q, x |-> Append(st.x, alphabet[d.r + 1])])
    ELSE Append(st.x, alphabet[BigToInt(st.n) + 1])

\* x.ljust(length, fill)
\* ljust gone wrong: no padding
ljust_none(x, length, fill) == x

ljust(x, length, fill) ==
    IF Len(x) < length THEN x \o [i \in 1..(length - Len(x)) |-> fill] ELSE x

encode_int_r(n, base, length, alphabet) ==
    Let(validate_radix_and_alphabet(base, alphabet), LAMBDA va :
        IF ~va.ok THEN va
        ELSE Ok(ljust(EncodeLoop(va.val.radix, va.val.alphabet, [n |-> n, x |-> << >>]),
                      length, va.val.alphabet[1])))

\* the for loop of decode_int over the reversed string; st = [idx, num, pw],
\* pw being base ** power for the character at idx (each is the one before
\* divided by base)
RECURSIVE DecodeLoop(_, _, _, _)
DecodeLoop(rev, alphabet, strlen, st) ==
    IF st.idx = strlen THEN Ok(st.num)
    ELSE LET char  == rev[st.idx + 1]
             power == strlen - (st.idx + 1)
             k     == index(alphabet, char)
         IN  IF k < 0 THEN Err("char-not-in-alphabet")
             ELSE DecodeLoop(rev, alphabet, strlen,
                     [idx |-> st.idx + 1,
                      num |-> BigAdd(st.num, BigMulSmall(st.pw, k)),
                      pw  |-> IF power = 0 THEN <<1>>
                              ELSE BigDivModSmall(st.pw, Len(alphabet)).q])

decode_int(string, alphabet) ==
    DecodeLoop(reverse_string(string), alphabet, Len(string),
               [idx |-> 0, num |-> << >>,
                pw  |-> BigPow(Len(alphabet), Max(Len(string) - 1, 0))])

\* ------------------------------------------------------------------------
\* Bit operations on machine ints
\* ------------------------------------------------------------------------
\* xor gone wrong: the second operand dropped
BitXorNone(x, y) == x

RECURSIVE BitXor(_, _)
BitXor(x, y) ==
    IF x = 0 THEN y
    ELSE IF y = 0 THEN x
    ELSE ((x + y) % 2) + 2 * BitXor(x \div 2, y \div 2)

RECURSIVE BitAnd(_, _)
BitAnd(x, y) ==
    IF x = 0 \/ y = 0 THEN 0
    ELSE ((x % 2) * (y % 2)) + 2 * BitAnd(x \div 2, y \div 2)

\* ------------------------------------------------------------------------
\* AES-ECB single-block encryption (Crypto.Cipher.AES, an external
\* primitive): a keyed function from 16-byte blocks to 16-byte blocks.
\* The model fixes one such function per key; nothing in ff3.py depends on
\* which one it is.
\* ------------------------------------------------------------------------
\* st = [i, acc]
RECURSIVE BlockSumLoop(_, _)
BlockSumLoop(block, st) ==
    IF st.i > Len(block) THEN st.acc
    ELSE BlockSumLoop(block, [i |-> st.i + 1, acc |-> st.acc + st.i * block[st.i]])

AesEncrypt(key, block) ==
    Let(BlockSumLoop(block, [i |-> 1, acc |-> 0]), LAMBDA acc :
        [j \in 1..BLOCK_SIZE |->
            (key[((j - 1) % Len(key)) + 1] + (2 * j + 1) * acc + block[j]) % 256]
        \o << >>)

\* ------------------------------------------------------------------------
\* FF3Cipher.calculateP (ff3.py 92-112)
\* ------------------------------------------------------------------------
calculateP(i, alphabet, W, B) ==
    Let(decode_int(B, alphabet), LAMBDA nB :
        IF ~nB.ok THEN nB
        ELSE Let(to_bytes(nB.val, 12), LAMBDA BBytes :
                 IF ~BBytes.ok THEN BBytes
                 ELSE Ok(<<W[1], W[2], W[3], BitXor(W[4], i)>> \o BBytes.val)))

\* ------------------------------------------------------------------------
\* Tweak split (ff3.py 182-195, 288-301); tweakBytes has 7 or 8 bytes
\* ------------------------------------------------------------------------
\* (int(tweakBytes[4:].hex(), 16) << 4).to_bytes(4, 'big')
TrShifted(tweakBytes) ==
    LET t == SubSeq(tweakBytes, 5, Len(tweakBytes))
        x == BigMulSmall(BigFromBytes(t), 16)
    IN  to_bytes(x, 4).val

Tweak_Tl(tweakBytes) ==
    IF Len(tweakBytes) = TWEAK_LEN
    THEN SubSeq(tweakBytes, 1, HALF_TWEAK_LEN)
    ELSE [SubSeq(tweakBytes, 1, 4) EXCEPT ![4] = BitAnd(@, 240)]

Tweak_Tr(tweakBytes) ==
    IF Len(tweakBytes) = TWEAK_LEN
    THEN SubSeq(tweakBytes, HALF_TWEAK_LEN + 1, Len(tweakBytes))
    ELSE [TrShifted(tweakBytes) EXCEPT ![4] = BitAnd(tweakBytes[7] * 16, 240)]

\* ------------------------------------------------------------------------
\* FF3Cipher.encrypt_with_tweak (ff3.py 158-251)
\* self is the instance record [tweak, radix, alphabet, minLen, maxLen, aesKey]
\* ------------------------------------------------------------------------
\* math.ceil(n / 2)
CeilHalf(n) == (n + 1) \div 2

\* the length check gone wrong: minLen itself refused
LengthOutOfRangeStrict(self, n) == (n <= self.minLen) \/ (n > self.maxLen)

\* the length check gone wrong: no upper limit
LengthOutOfRangeNoMax(self, n) == n < self.minLen

\* (n < self.minLen) or (n > self.maxLen)  (ff3.py 165, 270)
LengthOutOfRange(self, n) == (n < self.minLen) \/ (n > self.maxLen)

\* One pass of the loop body (ff3.py 211-249) on the halves st = [A, B].
\* env = [Tl, Tr, u, v, modU, modV] are the values fixed before the loop.
EncryptRound(self, env, i, st) ==
    LET m == IF i % 2 = 0 THEN env.u ELSE env.v
        W == IF i % 2 = 0 THEN env.Tr ELSE env.Tl
    IN  Let(calculateP(i, self.alphabet, W, st.B), LAMBDA P :
        IF ~P.ok THEN P ELSE
        Let(decode_int(st.A, self.alphabet), LAMBDA cA :
        IF ~cA.ok THEN cA ELSE
        LET revP == reverse_string(P.val)
            S    == reverse_string(AesEncrypt(self.aesKey, revP))
            y    == BigFromBytes(S)
        IN
        Let(PyMod(Signed(FALSE, BigAdd(cA.val, y)),
                  IF i % 2 = 0 THEN env.modU ELSE env.modV), LAMBDA c :
        Let(encode_int_r(c, IntVal(self.radix), m, StrVal(self.alphabet)),
            LAMBDA C :
        IF ~C.ok THEN C ELSE Ok([A |-> st.B, B |-> C.val])))))

\* for i in range(NUM_ROUNDS); r is the outcome of the rounds before i
RECURSIVE EncryptRounds(_, _, _, _)
EncryptRounds(self, env, i, r) ==
    IF ~r.ok THEN r
    ELSE IF i = NUM_ROUNDS THEN Ok(r.val.A \o r.val.B)
    ELSE EncryptRounds(self, env, i + 1, EncryptRound(self, env, i, r.val))

\* the values both methods compute before their loop
RoundEnv(self, tweakBytes, n) ==
    LET u == CeilHalf(n)
        v == n - u
    IN  [Tl   |-> Tweak_Tl(tweakBytes),
         Tr   |-> Tweak_Tr(tweakBytes),
         u    |-> u,
         v    |-> v,
         modU |-> BigPow(self.radix, u),
         modV |-> BigPow(self.radix, v)]

encrypt_with_tweak(self, plaintext, tweak) ==
    LET tweakBytes == fromhex(tweak)
        n == Len(plaintext)
        u == CeilHalf(n)
    IN  IF LengthOutOfRange(self, n) THEN Err("length-out-of-range")
        ELSE IF Len(tweakBytes) \notin {TWEAK_LEN, TWEAK_LEN_NEW} THEN Err("tweak-length")
        ELSE EncryptRounds(self, RoundEnv(self, tweakBytes, n), 0,
                           Ok([A |-> SubSeq(plaintext, 1, u),
                               B |-> SubSeq(plaintext, u + 1, n)]))

\* ------------------------------------------------------------------------
\* FF3Cipher.decrypt_with_tweak (ff3.py 263-355)
\* ------------------------------------------------------------------------
\* One pass of the loop body (ff3.py 314-353)
DecryptRound(self, env, i, st) ==
    LET m == IF i % 2 = 0 THEN env.u ELSE env.v
        W == IF i % 2 = 0 THEN env.Tr ELSE env.Tl
    IN  Let(calculateP(i, self.alphabet, W, st.A), LAMBDA P :
        IF ~P.ok THEN P ELSE
        Let(decode_int(st.B, self.alphabet), LAMBDA cB :
        IF ~cB.ok THEN cB ELSE
        LET revP == reverse_string(P.val)
            S    == reverse_string(AesEncrypt(self.aesKey, revP))
            y    == BigFromBytes(S)
        IN
        Let(PyMod(BigSubSigned(cB.val, y),
                  IF i % 2 = 0 THEN env.modU ELSE env.modV), LAMBDA c :
        Let(encode_int_r(c, IntVal(self.radix), m, StrVal(self.alphabet)),
            LAMBDA C :
        IF ~C.ok THEN C ELSE Ok([A |-> C.val, B |-> st.A])))))

\* for i in reversed(range(NUM_ROUNDS))
RECURSIVE DecryptRounds(_, _, _, _)
DecryptRounds(self, env, i, r) ==
    IF ~r.ok THEN r
    ELSE IF i < 0 THEN Ok(r.val.A \o r.val.B)
    ELSE DecryptRounds(self, env, i - 1, DecryptRound(self, env, i, r.val))

decrypt_with_tweak(self, ciphertext, tweak) ==
    LET tweakBytes == fromhex(tweak)
        n == Len(ciphertext)
        u == CeilHalf(n)
    IN  IF LengthOutOfRange(self, n) THEN Err("length-out-of-range")
        ELSE IF Len(tweakBytes) \notin {TWEAK_LEN, TWEAK_LEN_NEW} THEN Err("tweak-length")
        ELSE DecryptRounds(self, RoundEnv(self, tweakBytes, n), NUM_ROUNDS - 1,
                           Ok([A |-> SubSeq(ciphertext, 1, u),
                               B |-> SubSeq(ciphertext, u + 1, n)]))

\* FF3Cipher.encrypt (ff3.py 114-116), FF3Cipher.decrypt (ff3.py 253-261)
encrypt(self, plaintext) == encrypt_with_tweak(self, plaintext, self.tweak)

decrypt(self, ciphertext) == decrypt_with_tweak(self, ciphertext, self.tweak)

\* ------------------------------------------------------------------------
\* FF3Cipher.__init__ (ff3.py 69-90)
\* ------------------------------------------------------------------------
\* __init__ gone wrong: the tweak length checked here
FF3CipherChecked(key, tweak, radix, alphabet) ==
    LET va == validate_radix_and_alphabet(radix, alphabet)
        keybytes == fromhex(key)
        klen == Len(keybytes)
    IN  IF ~va.ok THEN va
        ELSE IF Len(fromhex(tweak)) \notin {TWEAK_LEN, TWEAK_LEN_NEW} THEN Err("tweak-length")
        ELSE IF klen \notin {16, 24, 32} THEN Err("key-length")
        ELSE LET mm == minlen_and_maxlen(va.val.radix)
             IN  Ok([tweak    |-> tweak,
                     radix    |-> va.val.radix,
                     alphabet |-> va.val.alphabet,
                     minLen   |-> mm.minLen,
                     maxLen   |-> mm.maxLen,
                     aesKey   |-> reverse_string(keybytes)])

FF3Cipher(key, tweak, radix, alphabet) ==
    LET va == validate_radix_and_alphabet(radix, alphabet)
        keybytes == fromhex(key)
        klen == Len(keybytes)
    IN  IF ~va.ok THEN va
        ELSE IF klen \notin {16, 24, 32} THEN Err("key-length")
        ELSE LET mm == minlen_and_maxlen(va.val.radix)
             IN  Ok([tweak    |-> tweak,
                     radix    |-> va.val.radix,
                     alphabet |-> va.val.alphabet,
                     minLen   |-> mm.minLen,
                     maxLen   |-> mm.maxLen,
                     aesKey   |-> reverse_string(keybytes)])

\* ------------------------------------------------------------------------
\* Inputs the operations are exercised with
\* ------------------------------------------------------------------------
\* in-range lengths tried: minLen .. minLen + MaxExtra (and maxLen)
MaxExtra == 1

\* "EF4359D8D580AA4F7F036D6F04FC6A94" (ff3_test.py 33)
Key128 == <<14,15,4,3,5,9,13,8,13,5,8,0,10,10,4,15,7,15,0,3,6,13,6,15,0,4,15,12,6,10,9,4>>

\* "EF4359D8D580AA4F7F036D6F04FC6A942B7E151628AED2A6" (ff3_test.py 70)
Key192 == Key128 \o <<2,11,7,14,1,5,1,6,2,8,10,14,13,2,10,6>>

\* a key of 15 bytes
KeyShort == SubSeq(Key128, 1, 30)

Keys == {Key128, Key192, KeyShort}

\* "D8E7920AFA330A73" (ff3_test.py 34), "D8E7920AFA330A" (ff3_test.py 209)
Tweak64 == <<13,8,14,7,9,2,0,10,15,10,3,3,0,10,7,3>>

Tweak56 == SubSeq(Tweak64, 1, 14)

\* a tweak of 3 bytes
Tweak24 == SubSeq(Tweak64, 1, 6)

\* "9A768A92F60E12D8" (ff3_test.py 41), "CE3EBD69454984" (ff3_test.py 224)
Tweak64b == <<9,10,7,6,8,10,9,2,15,6,0,14,1,2,13,8>>

Tweak56b == <<12,14,3,14,11,13,6,9,4,5,4,9,8,4>>

InstanceTweaks == {Tweak64, Tweak56, Tweak24}

CallTweaks == {Tweak64b, Tweak56b, Tweak24}

\* a custom alphabet of 100 distinct characters, and one in which the last
\* character repeats the first
Alphabet100 == [i \in 1..100 |-> 400 - i] \o << >>

AlphabetDup == [Alphabet100 EXCEPT ![100] = Alphabet100[1]]

RadixAlphabetArgs ==
    { [radix |-> NoneVal,    alphabet |-> NoneVal],
      [radix |-> NoneVal,    alphabet |-> StrVal(Alphabet100)],
      [radix |-> IntVal(100), alphabet |-> StrVal(AlphabetDup)],
      [radix |-> NoneVal,    alphabet |-> StrVal(AlphabetDup)],
      [radix |-> IntVal(1),  alphabet |-> NoneVal],
      [radix |-> IntVal(63), alphabet |-> NoneVal],
      [radix |-> IntVal(3),  alphabet |-> StrVal(<<97, 98>>)],
      [radix |-> NoneVal,    alphabet |-> StrVal(<<97>>)],
      [radix |-> OtherVal,   alphabet |-> NoneVal],
      [radix |-> NoneVal,    alphabet |-> OtherVal] }

\* FF3Cipher(key, tweak) for every key, and every tweak, radix and alphabet
\* with the 128 bit key
ConstructorArgs ==
    { [key |-> key, tweak |-> Tweak64, radix |-> NoneVal, alphabet |-> NoneVal] :
        key \in Keys }
    \cup { [key |-> Key128, tweak |-> tweak, radix |-> ra.radix, alphabet |-> ra.alphabet] :
             tweak \in InstanceTweaks, ra \in RadixAlphabetArgs }

\* "!", a character that is in none of the alphabets
Foreign == <<33>>[1]

\* sample strings of length n over the alphabet: the first character
\* repeated, and a mix of characters
Pattern(alphabet, n, p) ==
    [i \in 1..n |-> alphabet[((p * (i * i + 2 * i)) % Len(alphabet)) + 1]] \o << >>

ShortLengths(self) == self.minLen..(self.minLen + MaxExtra)

Samples(self) ==
    { Pattern(self.alphabet, n, p) : n \in ShortLengths(self), p \in {0, 1} }
    \cup { Pattern(self.alphabet, n, 1) :
             n \in {self.minLen - 1, self.maxLen, self.maxLen + 1} }
    \cup { [Pattern(self.alphabet, n, 1) EXCEPT ![1] = Foreign] :
             n \in ShortLengths(self) }
    \cup { [Pattern(self.alphabet, n, 1) EXCEPT ![n] = Foreign] :
             n \in ShortLengths(self) }

\* ------------------------------------------------------------------------
\* State
\* ------------------------------------------------------------------------
VARIABLES
    cipher,   \* outcome of FF3Cipher(...): Ok(instance), Err(reason)
    last,     \* the call whose result the caller holds: [op, input, tweak, out]
    prev,     \* the call before it, when its result was this call's input
    lens,     \* a call of minlen_and_maxlen on its own: [radix, minLen, maxLen]
    unit      \* a call of another function on its own: [fn, args, out]

vars == <<cipher, last, prev, lens, unit>>

NoCipher == Err("not-constructed")

NoCall == [op |-> "none", input |-> << >>, tweak |-> << >>, out |-> Err("none")]

NoLens == [radix |-> 0, minLen |-> 0, maxLen |-> 0]

NoUnit == [fn |-> "none"]

Init ==
    /\ cipher = NoCipher
    /\ last = NoCall
    /\ prev = NoCall
    /\ lens = NoLens
    /\ unit = NoUnit

\* c = FF3Cipher(key, tweak, radix, alphabet)
Construct ==
    /\ cipher = NoCipher
    /\ \E a \in ConstructorArgs :
          cipher' = FF3Cipher(a.key, a.tweak, a.radix, a.alphabet)
    /\ UNCHANGED <<last, prev, lens, unit>>

\* the strings the next call may be given: a sample, or the result held
\* (of a first call, and of a sampled length other than maxLen)
Inputs ==
    IF last.op = "none" THEN Samples(cipher.val)
    ELSE IF /\ last.out.ok
            /\ prev.op = "none"
            /\ Len(last.out.val) \in ShortLengths(cipher.val)
         THEN {last.out.val}
    ELSE {}

Called(op, s, tweak, out) ==
    /\ last' = [op |-> op, input |-> s, tweak |-> tweak, out |-> out]
    /\ prev' = last
    /\ UNCHANGED <<cipher, lens, unit>>

\* c.encrypt(s)
Encrypt ==
    /\ cipher.ok
    /\ \E s \in Inputs :
          Called("encrypt", s, cipher.val.tweak, encrypt(cipher.val, s))

\* c.decrypt(s)
Decrypt ==
    /\ cipher.ok
    /\ \E s \in Inputs :
          Called("decrypt", s, cipher.val.tweak, decrypt(cipher.val, s))

\* encrypt_with_tweak gone wrong: the tweak of the call kept in the instance
EncryptWithTweakKeeps ==
    /\ cipher.ok
    /\ \E s \in Inputs, tweak \in CallTweaks :
          /\ last' = [op |-> "encrypt", input |-> s, tweak |-> tweak,
                      out |-> encrypt_with_tweak(cipher.val, s, tweak)]
          /\ prev' = last
          /\ cipher' = Ok([cipher.val EXCEPT !.tweak = tweak])
          /\ lens' = lens
          /\ unit' = unit

\* c.encrypt_with_tweak(s, tweak)
EncryptWithTweak ==
    /\ cipher.ok
    /\ \E s \in Inputs, tweak \in CallTweaks :
          Called("encrypt", s, tweak, encrypt_with_tweak(cipher.val, s, tweak))

\* c.decrypt_with_tweak(s, tweak)
DecryptWithTweak ==
    /\ cipher.ok
    /\ \E s \in Inputs, tweak \in CallTweaks :
          Called("decrypt", s, tweak, decrypt_with_tweak(cipher.val, s, tweak))

\* the caller takes the result
Return ==
    /\ last.op # "none"
    /\ last' = NoCall
    /\ prev' = NoCall
    /\ UNCHANGED <<cipher, lens, unit>>

Next ==
    \/ Construct
    \/ Encrypt
    \/ Decrypt
    \/ EncryptWithTweak
    \/ DecryptWithTweak
    \/ Return

Spec == Init /\ [][Next]_vars

\* ------------------------------------------------------------------------
\* minlen_and_maxlen called on its own
\* ------------------------------------------------------------------------
\* every radix up to MaxDenseRadix, and some up to MAX_RADIX
MaxDenseRadix == 260

LenRadixes == (2..MaxDenseRadix) \cup {1000, 1024, 4096, 10000, 65535, MAX_RADIX}

\* minLen, maxLen = minlen_and_maxlen(radix)
MinlenAndMaxlen ==
    /\ lens = NoLens
    /\ \E radix \in LenRadixes :
          lens' = [radix  |-> radix,
                   minLen |-> minlen_and_maxlen(radix).minLen,
                   maxLen |-> minlen_and_maxlen(radix).maxLen]
    /\ UNCHANGED <<cipher, last, prev, unit>>

NextLen == MinlenAndMaxlen

SpecLen == Init /\ [][NextLen]_vars

\* ------------------------------------------------------------------------
\* The tweak split, decode_int and calculateP called on their own
\* ------------------------------------------------------------------------
\* values tried for the bytes of a tweak that the split treats by nibbles
\* (0x00, 0x05, 0x0A, 0xF0, 0xFF)
NibbleBytes == {0, 5, 10, 240, 255}

\* D8 E7 92 xx FA 33 yy, and D8 E7 92 xx FA 33 0A yy
UnitTweaks ==
    { <<216, 231, 146, x, 250, 51, y>> : x \in NibbleBytes, y \in NibbleBytes }
    \cup { <<216, 231, 146, x, 250, 51, 10, y>> : x \in NibbleBytes, y \in NibbleBytes }

\* the longest string given to decode_int on its own
MaxDecodeLen == 9

UnitAlphabets == {SubSeq(DEFAULT_ALPHABET, 1, 10), SubSeq(DEFAULT_ALPHABET, 1, 36), Alphabet100}

\* "567890000" (ff3_test.py 164)
TestB == <<53, 54, 55, 56, 57, 48, 48, 48, 48>>

UnitStrings(alphabet) ==
    { Pattern(alphabet, n, p) : n \in 0..MaxDecodeLen, p \in {1, 3} }
    \cup { [Pattern(alphabet, n, 3) EXCEPT ![n] = Foreign] : n \in 1..2 }
    \cup { TestB }

\* the halves of the longest input in radix 10, mixed or all "9", and a
\* string of "9" one character longer
HalfStrings(alphabet) ==
    LET h == minlen_and_maxlen(Len(alphabet)).maxLen \div 2
    IN  { Pattern(alphabet, h, 1),
          [j \in 1..h |-> alphabet[Len(alphabet)]] \o << >>,
          [j \in 1..(h + 1) |-> alphabet[Len(alphabet)]] \o << >> }

\* FA 33 0A 73 (ff3_test.py 165), D8 E7 92 0A
UnitW == { <<250, 51, 10, 115>>, <<216, 231, 146, 10>> }

\* Tl, Tr of ff3.py 182-195 (and 288-301) for a tweak of 7 or 8 bytes
TweakSplit ==
    /\ unit = NoUnit
    /\ \E tweakBytes \in UnitTweaks :
          unit' = [fn   |-> "tweak_split",
                   args |-> [tweakBytes |-> tweakBytes],
                   out  |-> [Tl |-> Tweak_Tl(tweakBytes), Tr |-> Tweak_Tr(tweakBytes)]]
    /\ UNCHANGED <<cipher, last, prev, lens>>

\* decode_int(string, alphabet)
DecodeInt ==
    /\ unit = NoUnit
    /\ \E alphabet \in UnitAlphabets :
          \E string \in UnitStrings(alphabet) :
             unit' = [fn   |-> "decode_int",
                      args |-> [string |-> string, alphabet |-> alphabet],
                      out  |-> decode_int(string, alphabet)]
    /\ UNCHANGED <<cipher, last, prev, lens>>

\* FF3Cipher.calculateP(i, alphabet, W, B); W is read again after the call
CalculateP ==
    /\ unit = NoUnit
    /\ \E i \in 0..(NUM_ROUNDS - 1), W \in UnitW :
          \E B \in UnitStrings(SubSeq(DEFAULT_ALPHABET, 1, 10))
                      \cup HalfStrings(SubSeq(DEFAULT_ALPHABET, 1, 10)) :
             unit' = [fn   |-> "calculateP",
                      args |-> [i |-> i, alphabet |-> SubSeq(DEFAULT_ALPHABET, 1, 10),
                                W |-> W, B |-> B],
                      out  |-> calculateP(i, SubSeq(DEFAULT_ALPHABET, 1, 10), W, B),
                      W    |-> W]
    /\ UNCHANGED <<cipher, last, prev, lens>>

NextUnit ==
    \/ TweakSplit
    \/ DecodeInt
    \/ CalculateP

SpecUnit == Init /\ [][NextUnit]_vars

\* ------------------------------------------------------------------------
\* Properties of the cipher (specification Spec)
\* ------------------------------------------------------------------------
Chars(alphabet) == {alphabet[i] : i \in 1..Len(alphabet)}

Distinct(alphabet) == Cardinality(Chars(alphabet)) = Len(alphabet)

OverAlphabet(s, alphabet) == \A i \in 1..Len(s) : s[i] \in Chars(alphabet)

\* a tweak given as hex text of 7 or 8 bytes
ValidTweak(tweak) == Len(tweak) \in {2 * TWEAK_LEN_NEW, 2 * TWEAK_LEN}

InRange(s) == cipher.val.minLen <= Len(s) /\ Len(s) <= cipher.val.maxLen

\* the call c is on a string over the alphabet, of a length in range, with a
\* valid tweak
Proper(c) ==
    /\ c.op # "none"
    /\ ValidTweak(c.tweak)
    /\ InRange(c.input)
    /\ OverAlphabet(c.input, cipher.val.alphabet)

\* last was given the result of prev, under the same tweak
Chained(op1, op2) ==
    /\ prev.op = op1
    /\ last.op = op2
    /\ last.tweak = prev.tweak

\* C1: with pairwise distinct alphabet characters, a valid tweak and a string
\* s over the alphabet of a length in [minLen, maxLen], encrypt(s) returns a
\* string and decrypt of it returns s.
C1_RoundTrip ==
    (cipher.ok /\ Distinct(cipher.val.alphabet)) =>
        /\ (last.op = "encrypt" /\ Proper(last)) => last.out.ok
        /\ (Chained("encrypt", "decrypt") /\ Proper(prev)) => last.out = Ok(prev.input)

\* decrypt(encrypt(s)) = s was seen for an s of odd length that encrypt
\* changed, with the tweak of the instance
C1_Witness ==
    /\ cipher.ok /\ Distinct(cipher.val.alphabet)
    /\ Chained("encrypt", "decrypt") /\ Proper(prev)
    /\ prev.tweak = cipher.val.tweak
    /\ Len(prev.input) % 2 = 1
    /\ prev.out.val # prev.input
    /\ last.out = Ok(prev.input)

\* C2: for a string s over the alphabet of a length in [minLen, maxLen] (and a
\* valid tweak), encrypt(s) and decrypt(s) return a string of Len(s)
\* characters, all of the alphabet.
C2_FormatPreserved ==
    (cipher.ok /\ Proper(last)) =>
        /\ last.out.ok
        /\ Len(last.out.val) = Len(last.input)
        /\ OverAlphabet(last.out.val, cipher.val.alphabet)

\* a string of maxLen characters was decrypted to another one of maxLen
\* characters that ends with the padding character alphabet[0]
C2_Witness ==
    /\ cipher.ok /\ Proper(last)
    /\ last.op = "decrypt"
    /\ Len(last.input) = cipher.val.maxLen
    /\ last.out.ok
    /\ last.out.val # last.input
    /\ last.out.val[Len(last.out.val)] = cipher.val.alphabet[1]

\* C3: with pairwise distinct alphabet characters and a fixed valid tweak,
\* decrypt(c) is a string of the same length over the alphabet and
\* encrypt(decrypt(c)) = c; and two distinct plaintexts (s and encrypt(s))
\* have distinct ciphertexts.
C3_Permutation ==
    (cipher.ok /\ Distinct(cipher.val.alphabet)) =>
        /\ (Chained("decrypt", "encrypt") /\ Proper(prev)) =>
              /\ Proper(last)
              /\ Len(last.input) = Len(prev.input)
              /\ last.out = Ok(prev.input)
        /\ (Chained("encrypt", "encrypt") /\ Proper(prev) /\ prev.input # last.input) =>
              /\ last.out.ok
              /\ last.out.val # prev.out.val

\* encrypt(decrypt(c)) = c was seen for a c that decrypt changed
C3_Witness ==
    /\ cipher.ok /\ Distinct(cipher.val.alphabet)
    /\ Chained("decrypt", "encrypt") /\ Proper(prev)
    /\ prev.out.val # prev.input
    /\ last.out = Ok(prev.input)

\* C4 as stated: no instance has an alphabet in which a character occurs more
\* than once (construction with such an alphabet fails).
C4_AsStated == cipher.ok => Distinct(cipher.val.alphabet)

\* C5: a call on a string of a length in [minLen, maxLen] with a character
\* that is not in the alphabet fails and returns no string; with a valid tweak
\* the failure is the codec's char-not-in-alphabet.
C5_ForeignCharFails ==
    (/\ cipher.ok
     /\ last.op # "none"
     /\ InRange(last.input)
     /\ ~OverAlphabet(last.input, cipher.val.alphabet)) =>
        /\ ~last.out.ok
        /\ ValidTweak(last.tweak) => last.out.err = "char-not-in-alphabet"

\* decrypt failed on a string whose only foreign character is its first one
C5_Witness ==
    /\ cipher.ok
    /\ last.op = "decrypt"
    /\ InRange(last.input)
    /\ last.input[1] = Foreign
    /\ OverAlphabet(Tail(last.input), cipher.val.alphabet)
    /\ ~last.out.ok
    /\ last.out.err = "char-not-in-alphabet"

\* C6: a call fails with length-out-of-range exactly when the length n of its
\* input has n < minLen or n > maxLen (whatever the tweak and the characters).
C6_LengthCheck ==
    (cipher.ok /\ last.op # "none") =>
        ((~last.out.ok /\ last.out.err = "length-out-of-range")
            <=> (Len(last.input) < cipher.val.minLen \/ Len(last.input) > cipher.val.maxLen))

\* a string of exactly maxLen characters was accepted and encrypted
C6_Witness ==
    /\ cipher.ok
    /\ last.op = "encrypt"
    /\ Len(last.input) = cipher.val.maxLen
    /\ last.out.ok

\* C7: no call changes the instance (tweak, radix, alphabet, minLen, maxLen,
\* key).
C7_Immutable == [][cipher.ok => cipher' = cipher]_vars

\* two calls in a row with a tweak of their own, the first returning a string
\* and the second failing, have left the instance with its own tweak
C7_Witness ==
    /\ cipher.ok
    /\ prev.op # "none" /\ prev.out.ok
    /\ last.op # "none" /\ ~last.out.ok
    /\ prev.tweak # cipher.val.tweak
    /\ last.tweak # cipher.val.tweak

\* C8 as stated: no instance holds a tweak whose byte length is neither 7
\* nor 8.
C8_AsStated == cipher.ok => ValidTweak(cipher.val.tweak)

\* C8, amended: construction never fails for the tweak; the tweak length is
\* checked by each call, after the length of the input, so a call with a tweak
\* of another length than 7 or 8 bytes (the instance's or its own) returns no
\* string and fails with tweak-length when its input is of a length in range.
C8_TweakCheckedPerCall ==
    /\ ~cipher.ok => cipher.err # "tweak-length"
    /\ (cipher.ok /\ last.op # "none" /\ ~ValidTweak(last.tweak)) =>
          /\ ~last.out.ok
          /\ InRange(last.input) => last.out.err = "tweak-length"

\* an instance holding a 3 byte tweak exists and its encrypt failed on the
\* tweak length
C8_Witness ==
    /\ cipher.ok /\ ~ValidTweak(cipher.val.tweak)
    /\ last.op = "encrypt"
    /\ last.tweak = cipher.val.tweak
    /\ ~last.out.ok /\ last.out.err = "tweak-length"

\* ------------------------------------------------------------------------
\* Properties of minlen_and_maxlen (specification SpecLen)
\* ------------------------------------------------------------------------
BigLeq(a, b) == ~BigLess(b, a)

Two96 == BigPow(2, 96)

\* C9: for every radix, minLen is the smallest L with radix^L >= 1,000,000:
\* radix^minLen >= 1,000,000 and radix^(minLen - 1) < 1,000,000.
C9_MinLenIsCeilLog ==
    lens # NoLens =>
        /\ lens.minLen >= 1
        /\ BigLeq(BigFromInt(DOMAIN_MIN), BigPow(lens.radix, lens.minLen))
        /\ BigLess(BigPow(lens.radix, lens.minLen - 1), BigFromInt(DOMAIN_MIN))

\* radix 10, where 10^6 is the domain minimum itself and the double
\* math.log(1000000, 10) is not the integer 6
C9_Witness == lens.radix = 10 /\ lens.minLen = 6

C10Radixes == {2, 3, 10, 16, 26, 36, 62}

\* C10 as stated: for radix in {2, 3, 10, 16, 26, 36, 62},
\* radix^maxLen <= 2^96 * radix.
C10_AsStated ==
    lens.radix \in C10Radixes =>
        BigLeq(BigPow(lens.radix, lens.maxLen), BigMulSmall(Two96, lens.radix))

\* C10, amended: for every radix, maxLen is even and maxLen / 2 is the largest
\* h with radix^h <= 2^96: radix^(maxLen/2) <= 2^96 < radix^(maxLen/2 + 1).
C10_HalfFitsIn96Bits ==
    lens # NoLens =>
        /\ lens.maxLen % 2 = 0
        /\ BigLeq(BigPow(lens.radix, lens.maxLen \div 2), Two96)
        /\ BigLess(Two96, BigPow(lens.radix, (lens.maxLen \div 2) + 1))

C10_Witness == lens.radix = 62 /\ lens.maxLen = 32

\* ------------------------------------------------------------------------
\* Properties of the functions called on their own (specification SpecUnit)
\* ------------------------------------------------------------------------
\* C11, as stated: for every 7-byte tweak the right half-tweak is
\* t[32..55] || t[28..31] || 0000, that is Tr[0] = tweak[4], Tr[1] = tweak[5],
\* Tr[2] = tweak[6] and Tr[3] = (tweak[3] & 0x0F) << 4.  The code computes
\* (tweak[4..6] << 4) in four bytes and then sets Tr[3] = tweak[6] << 4 & 0xF0,
\* so the low nibble of tweak[3] is in neither half and the statement fails.
C11_AsStated ==
    (unit.fn = "tweak_split" /\ Len(unit.args.tweakBytes) = TWEAK_LEN_NEW)
        => unit.out.Tr = << unit.args.tweakBytes[5],
                            unit.args.tweakBytes[6],
                            unit.args.tweakBytes[7],
                            BitAnd(unit.args.tweakBytes[4], 15) * 16 >>

\* the position of a character in an alphabet without repeats, from 0
PositionOf(alphabet, c) == (CHOOSE j \in 1..Len(alphabet) : alphabet[j] = c) - 1

\* the digits of s taken from position k on in steps of step (1 or -1), each
\* one a lower digit than the one after it: acc * radix + index(s[k]), ...
RECURSIVE Horner(_, _, _, _, _)
Horner(s, alphabet, k, step, acc) ==
    IF k < 1 \/ k > Len(s) THEN acc
    ELSE Let(BigAdd(BigMulSmall(acc, Len(alphabet)),
                    BigFromInt(PositionOf(alphabet, s[k]))),
             LAMBDA next : Horner(s, alphabet, k + step, step, next))

\* the value of s read with its first character carrying the highest power:
\* the sum over k in 0..|s|-1 of index(s[k]) * radix^(|s|-1-k)
FirstHighest(s, alphabet) == Horner(s, alphabet, 1, 1, << >>)

\* the value of s read with its first character carrying the lowest power:
\* the sum over k in 0..|s|-1 of index(s[k]) * radix^k
FirstLowest(s, alphabet) == Horner(s, alphabet, Len(s), -1, << >>)

DecodedOverAlphabet ==
    /\ unit.fn = "decode_int"
    /\ OverAlphabet(unit.args.string, unit.args.alphabet)

\* C12, as stated: decode_int(s, alphabet) is the sum over k of
\* index(s[k]) * radix^(|s|-1-k), the first character of s carrying the
\* highest power.  The code reverses s before it applies those powers, so
\* the statement fails ("10" decodes to 1).
C12_AsStated ==
    DecodedOverAlphabet
        => unit.out = Ok(FirstHighest(unit.args.string, unit.args.alphabet))

\* C12, amended: for every string s over the alphabet decode_int(s, alphabet)
\* is the sum over k of index(s[k]) * radix^k: the first character of s
\* carries the lowest power and the last one the highest.
C12_FirstCharLowestPower ==
    DecodedOverAlphabet
        => unit.out = Ok(FirstLowest(unit.args.string, unit.args.alphabet))

\* decode_int("567890000", "0123456789") has returned 98765, where the
\* first-highest reading is 567890000
C12_Witness ==
    /\ DecodedOverAlphabet
    /\ unit.args.string = TestB
    /\ Len(unit.args.alphabet) = 10
    /\ unit.out = Ok(BigFromInt(98765))
    /\ FirstHighest(TestB, unit.args.alphabet) = BigFromInt(567890000)

\* x XOR y of two bytes, bit by bit from bit b upwards
RECURSIVE XorFromBit(_, _, _)
XorFromBit(x, y, b) ==
    IF b = 8 THEN 0
    ELSE (IF (x \div (2 ^ b)) % 2 = (y \div (2 ^ b)) % 2 THEN 0 ELSE 2 ^ b)
         + XorFromBit(x, y, b + 1)

\* calculateP was called on a string over the alphabet that is no longer
\* than a half of the longest input
BuiltP ==
    /\ unit.fn = "calculateP"
    /\ OverAlphabet(unit.args.B, unit.args.alphabet)
    /\ 2 * Len(unit.args.B) <= minlen_and_maxlen(Len(unit.args.alphabet)).maxLen

\* C14: for every round index i in 0..7, half-tweak W of 4 bytes and half
\* string B over the alphabet, calculateP returns 16 bytes P with
\* P[0..2] = W[0..2], P[3] = W[3] XOR i and P[4..15] the big-endian 12 bytes
\* of the number the codec gives to B (its first character the lowest digit),
\* and leaves W as it was; for i = 0, radix 10, B = "567890000", W = FA330A73
\* P is FA 33 0A 73 00 00 00 00 00 00 00 00 00 01 81 CD.
C14_RoundBlock ==
    BuiltP =>
        /\ unit.out.ok
        /\ Len(unit.out.val) = BLOCK_SIZE
        /\ \A j \in 1..3 : unit.out.val[j] = unit.args.W[j]
        /\ unit.out.val[4] = XorFromBit(unit.args.W[4], unit.args.i, 0)
        /\ LET nB == FirstLowest(unit.args.B, unit.args.alphabet)
           IN  \A j \in 1..12 : unit.out.val[BLOCK_SIZE + 1 - j] = LimbAt(nB, j)
        /\ unit.W = unit.args.W
        /\ (unit.args.i = 0 /\ unit.args.B = TestB /\ unit.args.W = <<250, 51, 10, 115>>)
              => unit.out.val = <<250, 51, 10, 115, 0, 0, 0, 0, 0, 0, 0, 0, 0, 1, 129, 205>>

\* calculateP(5, "0123456789", FA330A73, "567890000") has returned a block
\* whose fourth byte is 0x73 XOR 5 = 0x76 and whose last bytes are 01 81 CD
C14_Witness ==
    /\ BuiltP
    /\ unit.args.i = 5
    /\ unit.args.B = TestB
    /\ unit.args.W = <<250, 51, 10, 115>>
    /\ unit.out = Ok(<<250, 51, 10, 118, 0, 0, 0, 0, 0, 0, 0, 0, 0, 1, 129, 205>>)

\* ------------------------------------------------------------------------
\* The 12 bytes of calculateP inside the rounds (specification Spec)
\* ------------------------------------------------------------------------
\* C13: a half of an input of at most maxLen characters has at most
\* ceil(maxLen / 2) digits and radix^ceil(maxLen / 2) <= 2^96, so in every
\* round of every call the number that calculateP writes into 12 bytes is
\* below 2^96: no call of encrypt or decrypt, whatever its input, ends in the
\* OverflowError of to_bytes (the longer inputs are refused before the rounds).
C13_NoOverflow ==
    cipher.ok =>
        /\ BigLeq(BigPow(cipher.val.radix, CeilHalf(cipher.val.maxLen)), Two96)
        /\ last.op # "none" =>
              /\ last.out # Err("int-too-big-to-convert")
              /\ (Proper(last) => last.out.ok)

\* a string of maxLen characters (56 digits in radix 10) went through the
\* eight rounds of decrypt, its halves having maxLen / 2 digits each, and
\* one more digit in a half could pass 2^96
C13_Witness ==
    /\ cipher.ok
    /\ last.op = "decrypt"
    /\ Proper(last)
    /\ Len(last.input) = cipher.val.maxLen
    /\ last.out.ok
    /\ BigLess(Two96, BigPow(cipher.val.radix, CeilHalf(cipher.val.maxLen) + 1))

====
